---- MODULE Spec2Model ----
(***************************************************************************)
(* Sharding directory of mysql.hub (lib/mysql/hub/sharding.py): the two    *)
(* catalogs kept in the state store (shard_mapping and                     *)
(* range_sharding_specification), the key router (lookup, go_fish_lookup)  *)
(* and the shard pruner (delete_from_shard_db).                            *)
(*                                                                         *)
(* A store table is the collection of its rows; a statement is modelled by *)
(* its WHERE predicate over a row.  Values are drawn from sets that fit    *)
(* the declared columns (names of at most 64 characters, bounds within     *)
(* INT), so the store keeps them as written.                               *)
(***************************************************************************)
EXTENDS Integers, Sequences, FiniteSets, TLC

VARIABLES shard_mapping, range_spec, groups, shard_db, ret, added, runs, cur,
          frame

vars ==
    <<shard_mapping, range_spec, groups, shard_db, ret, added, runs, cur,
      frame>>

----------------------------------------------------------------------------
(* Input domains *)

Tables == {"db1.t1", "db1.t2"}

Columns == {"userID", "CustomerID"}

Types == {"RANGE", "HASH"}

\* The types list is asked for: those a row may hold and one no row holds.
ListTypes == Types \cup {"LIST"}

Schemes == {"first", "second"}

GroupIds == {"GroupID1", "GroupID2"}

Servers == {"S1", "S2", "S3"}

\* The key ranges offered to add: the three of the class's example table and
\* one that overlaps the first two and shares a lower bound with the first.
RangeChoices == {<<0, 1000>>, <<1001, 2000>>, <<2001, 3000>>, <<0, 2000>>}

\* The keys looked up: inside a range, on both sides of a boundary, outside.
LookupKeys == {500, 1000, 1001, 3500}

\* The most rows range_sharding_specification holds.
MaxRanges == 3

\* The most rows range_sharding_specification holds when the router runs.
MaxRouterRanges == 2

\* The most rows range_sharding_specification holds when the pruner runs.
MaxPrunerRanges == 2

\* The most runs in a row of the pruner, or of remove, for one table.
MaxRuns == 2

\* The rows of a sharded table, by the values of the columns it may be
\* sharded on.
DataRows ==
    {[userID |-> 500, CustomerID |-> 1500],
     [userID |-> 1500, CustomerID |-> 2500]}

\* Python's None, and the absence of a value in a call record.
None == "None"

----------------------------------------------------------------------------
(* Call records: what the last operation was called with, how it ended     *)
(* (OK or the exception raised), what it returned and which collaborator   *)
(* calls it made, in order.                                                *)

OK == "ok"

ShardingError == "ShardingError"

DuplicateKey == "DuplicateKey"

\* Python's error for an attribute of None.
AttributeError == "AttributeError"

\* Python's error for a local name read before it is bound.
UnboundLocalError == "UnboundLocalError"

\* Python's error for a name that is bound nowhere.
NameError == "NameError"

Call(op, args, outcome, value, calls) ==
    [op |-> op, args |-> args, outcome |-> outcome, value |-> value,
     calls |-> calls]

NoCall == Call("none", <<>>, OK, None, <<>>)

----------------------------------------------------------------------------
(* Shard mapping catalog: class ShardMapping *)

MappingRows ==
    [table_name : Tables, column_name : Columns, type_name : Types,
     sharding_specification : Schemes]

\* ShardMapping(table_name, column_name, type_name, sharding_specification)
ShardMapping(table_name, column_name, type_name, sharding_specification) ==
    [table_name |-> table_name, column_name |-> column_name,
     type_name |-> type_name,
     sharding_specification |-> sharding_specification]

\* Variant: the table declared without its primary key.
PrimaryKeyViolation_NoKey(table_name) ==
    FALSE

\* table_name ... NOT NULL PRIMARY KEY: an insert of a table_name already
\* stored is rejected by the store.
PrimaryKeyViolation(table_name) ==
    \E r \in shard_mapping : r.table_name = table_name

\* Variant: the SELECT without its WHERE clause.
SELECT_SHARD_MAPPING_NoWhere(row, table_name) ==
    TRUE

\* WHERE table_name = %s
SELECT_SHARD_MAPPING(row, table_name) ==
    row.table_name = table_name

\* Variant: the SELECT without its WHERE clause.
SELECT_SHARD_MAPPINGS_NoWhere(row, sharding_type) ==
    TRUE

\* SELECT ... FROM shard_mapping WHERE type_name = %s
SELECT_SHARD_MAPPINGS(row, sharding_type) ==
    row.type_name = sharding_type

\* Variant: the DELETE without its WHERE clause.
DELETE_SHARD_MAPPING_NoWhere(row, table_name) ==
    TRUE

\* DELETE FROM shard_mapping WHERE table_name = %s
DELETE_SHARD_MAPPING(row, table_name) ==
    row.table_name = table_name

\* The row object built from a fetched row: ShardMapping(row[0], row[1],
\* row[2], row[3]) over SELECT table_name, column_name, type_name,
\* sharding_specification.
MappingOfRow(row) ==
    ShardMapping(row.table_name, row.column_name, row.type_name,
                 row.sharding_specification)

\* ShardMapping.fetch: the outcomes of cur.fetchone() and what fetch makes
\* of each: None raises ShardingError, a row gives the ShardMapping.
ShardMappingFetch(table_name) ==
    LET rows == {r \in shard_mapping : SELECT_SHARD_MAPPING(r, table_name)}
    IN  IF rows = {}
        THEN {[outcome |-> ShardingError, value |-> None]}
        ELSE {[outcome |-> OK, value |-> MappingOfRow(r)] : r \in rows}

\* ShardMapping.list: the objects of the rows of cur.fetchall(), in any of
\* the orders the store may list them; ShardingError when there is none.
ShardMappingList(sharding_type) ==
    LET rows == {r \in shard_mapping :
                   SELECT_SHARD_MAPPINGS(r, sharding_type)}
    IN  IF rows = {}
        THEN {[outcome |-> ShardingError, value |-> None]}
        ELSE {[outcome |-> OK,
               value |-> [i \in DOMAIN order |-> MappingOfRow(order[i])]] :
              order \in {o \in [1..Cardinality(rows) -> rows] :
                           \A i, j \in DOMAIN o : o[i] = o[j] => i = j}}

\* Variant: REPLACE INTO, the row of a table already mapped is overwritten.
MappingAdd_Replace(table_name, column_name, type_name, sharding_specification) ==
    LET m == ShardMapping(table_name, column_name, type_name,
                          sharding_specification)
    IN  /\ shard_mapping' =
             {r \in shard_mapping : r.table_name # table_name} \cup {m}
        /\ added' = [added EXCEPT ![table_name] = {m}]
        /\ ret' = Call("ShardMapping.add", m, OK, m, <<>>)
        /\ UNCHANGED <<range_spec, groups, shard_db, cur, frame>>
        /\ runs' = 0

MappingAdd(table_name, column_name, type_name, sharding_specification) ==
    LET m == ShardMapping(table_name, column_name, type_name,
                          sharding_specification)
    IN  /\ IF PrimaryKeyViolation(table_name)
           THEN /\ shard_mapping' = shard_mapping
                /\ added' = added
                /\ ret' = Call("ShardMapping.add", m, DuplicateKey, None,
                               <<>>)
           ELSE /\ shard_mapping' = shard_mapping \cup {m}
                /\ added' = [added EXCEPT ![table_name] = {m}]
                /\ ret' = Call("ShardMapping.add", m, OK, m, <<>>)
        /\ UNCHANGED <<range_spec, groups, shard_db, cur, frame>>
        /\ runs' = 0

\* The calls of remove in a row on mappings of the table of self, this one
\* included.
RemovesInARow(self) ==
    IF ret.op = "ShardMapping.remove"
         /\ ret.args.table_name = self.table_name
    THEN runs + 1 ELSE 1

\* Variant: the remove cascades to the partitions of the scheme of the row
\* it deletes.
MappingRemove_Cascade(self) ==
    /\ RemovesInARow(self) <= MaxRuns
    /\ shard_mapping' =
         {r \in shard_mapping : ~DELETE_SHARD_MAPPING(r, self.table_name)}
    /\ range_spec' =
         [p \in DOMAIN range_spec |->
            IF \E r \in shard_mapping :
                 /\ DELETE_SHARD_MAPPING(r, self.table_name)
                 /\ r.sharding_specification = p.name
            THEN 0 ELSE range_spec[p]]
    /\ added' = [added EXCEPT ![self.table_name] = {}]
    /\ ret' = Call("ShardMapping.remove", self, OK, TRUE, <<>>)
    /\ UNCHANGED <<groups, shard_db, cur, frame>>
    /\ runs' = RemovesInARow(self)

\* self.remove(): self is any ShardMapping object, stored or not; the
\* statement is given its table_name alone.
MappingRemove(self) ==
    /\ RemovesInARow(self) <= MaxRuns
    /\ shard_mapping' =
         {r \in shard_mapping : ~DELETE_SHARD_MAPPING(r, self.table_name)}
    /\ added' = [added EXCEPT ![self.table_name] = {}]
    /\ ret' = Call("ShardMapping.remove", self, OK, TRUE, <<>>)
    /\ UNCHANGED <<range_spec, groups, shard_db, cur, frame>>
    /\ runs' = RemovesInARow(self)

MappingList(sharding_type) ==
    /\ \E r \in ShardMappingList(sharding_type) :
         ret' = Call("ShardMapping.list", sharding_type, r.outcome, r.value,
                     <<>>)
    /\ UNCHANGED <<shard_mapping, range_spec, groups, shard_db, added,
                   cur, frame>>
    /\ runs' = 0

MappingFetch(table_name) ==
    /\ \E r \in ShardMappingFetch(table_name) :
         ret' = Call("ShardMapping.fetch", table_name, r.outcome, r.value,
                     <<>>)
    /\ UNCHANGED <<shard_mapping, range_spec, groups, shard_db, added,
                   cur, frame>>
    /\ runs' = 0

----------------------------------------------------------------------------
(* Range partition catalog: class RangeShardingSpecification.  The table   *)
(* has no key, so it is a bag of rows: range_spec[r] is the number of      *)
(* stored copies of row r.                                                 *)

\* RangeShardingSpecification(name, lower_bound, upper_bound, group_id)
RangeShardingSpecification(name, lower_bound, upper_bound, group_id) ==
    [name |-> name, lower_bound |-> lower_bound,
     upper_bound |-> upper_bound, group_id |-> group_id]

RangeRows ==
    {RangeShardingSpecification(n, b[1], b[2], g) :
       n \in Schemes, b \in RangeChoices, g \in GroupIds}

RECURSIVE Sum(_, _)
Sum(f, S) ==
    IF S = {} THEN 0
    ELSE LET x == CHOOSE y \in S : TRUE IN f[x] + Sum(f, S \ {x})

Stored == {r \in RangeRows : range_spec[r] > 0}

\* Variant: the DELETE without its upper_bound condition.
DELETE_RANGE_SPECIFICATION_NoUpper(row, name, lower_bound, upper_bound) ==
    /\ row.name = name
    /\ row.lower_bound = lower_bound

\* Variant: the DELETE without the comparison of name.
DELETE_RANGE_SPECIFICATION_NoName(row, name, lower_bound, upper_bound) ==
    /\ row.lower_bound = lower_bound
    /\ row.upper_bound = upper_bound

\* DELETE ... WHERE name = %s AND lower_bound = %s AND upper_bound = %s
DELETE_RANGE_SPECIFICATION(row, name, lower_bound, upper_bound) ==
    /\ row.name = name
    /\ row.lower_bound = lower_bound
    /\ row.upper_bound = upper_bound

\* Variant: the SELECT without its WHERE clause.
SELECT_RANGE_SPECIFICATION_NoWhere(row, name) ==
    TRUE

\* SELECT lower_bound, upper_bound, group_id ... WHERE name = %s
SELECT_RANGE_SPECIFICATION(row, name) ==
    row.name = name

\* Variant: the upper bound taken as exclusive.
LOOKUP_KEY_ExclusiveUpper(row, key, name) ==
    /\ key >= row.lower_bound
    /\ key < row.upper_bound
    /\ row.name = name

\* Variant: the scheme name not compared.
LOOKUP_KEY_AnyName(row, key, name) ==
    /\ key >= row.lower_bound
    /\ key <= row.upper_bound

\* SELECT ... WHERE %s >= lower_bound AND %s <= upper_bound AND name = %s
\* with params (key, key, name)
LOOKUP_KEY(row, key, name) ==
    /\ key >= row.lower_bound
    /\ key <= row.upper_bound
    /\ row.name = name

\* The object built from a fetched row (lower_bound, upper_bound, group_id):
\* RangeShardingSpecification(name, row[0], row[1], row[2]), name being the
\* caller's argument.
RangeOfRow(name, row) ==
    RangeShardingSpecification(name, row.lower_bound, row.upper_bound,
                               row.group_id)

\* RangeShardingSpecification.fetch: the objects of cur.fetchall() as a bag,
\* ShardingError when there is none.
RangeShardingFetch(name) ==
    LET rows == {r \in Stored : SELECT_RANGE_SPECIFICATION(r, name)}
        objs == [o \in RangeRows |->
                   Sum(range_spec, {r \in rows : RangeOfRow(name, r) = o})]
    IN  IF rows = {}
        THEN [outcome |-> ShardingError, value |-> None]
        ELSE [outcome |-> OK, value |-> objs]

\* RangeShardingSpecification.lookup: cur.fetchone() yields any one of the
\* selected rows (the statement has no ORDER BY), or None.
RangeShardingLookup(key, name) ==
    LET rows == {r \in Stored : LOOKUP_KEY(r, key, name)}
    IN  IF rows = {}
        THEN {[outcome |-> ShardingError, value |-> None]}
        ELSE {[outcome |-> OK, value |-> RangeOfRow(name, r)] : r \in rows}

\* No statement of lookup has been executed.
NoCursor == {}

\* Variant: the object takes its group_id from another row of the result
\* set than its bounds.
CursorFetchone_Mixed(rows, name) ==
    IF rows = {}
    THEN {[outcome |-> ShardingError, value |-> None]}
    ELSE {[outcome |-> OK,
           value |-> RangeShardingSpecification(name, r.lower_bound,
                                                r.upper_bound, q.group_id)] :
          r \in rows, q \in rows}

\* cur.fetchone() on the rows the statement selected when it was executed,
\* and what lookup makes of it: None raises ShardingError, a row gives the
\* RangeShardingSpecification.
CursorFetchone(rows, name) ==
    IF rows = {}
    THEN {[outcome |-> ShardingError, value |-> None]}
    ELSE {[outcome |-> OK, value |-> RangeOfRow(name, r)] : r \in rows}

\* lookup, first step: persister.exec_stmt(LOOKUP_KEY, ...) gives a cursor
\* over the rows that match at this moment.
RangeLookupExecute(key, name) ==
    /\ \A c \in cur : ~c.open
    /\ cur' = {[key |-> key, name |-> name,
                rows |-> {r \in Stored : LOOKUP_KEY(r, key, name)},
                open |-> TRUE]}
    /\ UNCHANGED <<shard_mapping, range_spec, groups, shard_db, ret, added,
                   runs, frame>>

\* lookup, second step: cur.fetchone() and the return or the raise.  Other
\* callers' statements may have run in between.
RangeLookupFetchone ==
    /\ \E c \in cur :
         /\ c.open
         /\ cur' = {[c EXCEPT !.open = FALSE]}
         /\ \E r \in CursorFetchone(c.rows, c.name) :
              ret' = Call("RangeShardingSpecification.lookup",
                          <<c.key, c.name>>, r.outcome, r.value, <<>>)
    /\ UNCHANGED <<shard_mapping, range_spec, groups, shard_db, added, frame>>
    /\ runs' = 0

\* Variant: an add whose range shares a key with a stored partition of the
\* scheme is refused.
RangeAdd_OverlapChecked(name, lower_bound, upper_bound, group_id) ==
    LET p == RangeShardingSpecification(name, lower_bound, upper_bound,
                                        group_id)
        overlaps == \E q \in Stored :
                      /\ q.name = name
                      /\ q.lower_bound <= upper_bound
                      /\ lower_bound <= q.upper_bound
    IN  /\ Sum(range_spec, RangeRows) < MaxRanges
        /\ IF overlaps
           THEN /\ range_spec' = range_spec
                /\ ret' = Call("RangeShardingSpecification.add", p,
                               ShardingError, None, <<>>)
           ELSE /\ range_spec' = [range_spec EXCEPT ![p] = @ + 1]
                /\ ret' = Call("RangeShardingSpecification.add", p, OK, p,
                               <<>>)
        /\ UNCHANGED <<shard_mapping, groups, shard_db, added, cur, frame>>
        /\ runs' = 0

RangeAdd(name, lower_bound, upper_bound, group_id) ==
    LET p == RangeShardingSpecification(name, lower_bound, upper_bound,
                                        group_id)
    IN  /\ Sum(range_spec, RangeRows) < MaxRanges
        /\ range_spec' = [range_spec EXCEPT ![p] = @ + 1]
        /\ ret' = Call("RangeShardingSpecification.add", p, OK, p, <<>>)
        /\ UNCHANGED <<shard_mapping, groups, shard_db, added, cur, frame>>
        /\ runs' = 0

RangeRemove(name, lower_bound, upper_bound) ==
    /\ range_spec' =
         [r \in RangeRows |->
            IF DELETE_RANGE_SPECIFICATION(r, name, lower_bound, upper_bound)
            THEN 0 ELSE range_spec[r]]
    /\ ret' = Call("RangeShardingSpecification.remove",
                   <<name, lower_bound, upper_bound>>, OK, TRUE, <<>>)
    /\ UNCHANGED <<shard_mapping, groups, shard_db, added, cur, frame>>
    /\ runs' = 0

RangeFetch(name) ==
    /\ LET f == RangeShardingFetch(name)
       IN  ret' = Call("RangeShardingSpecification.fetch", name, f.outcome,
                       f.value, <<>>)
    /\ UNCHANGED <<shard_mapping, range_spec, groups, shard_db, added,
                   cur, frame>>
    /\ runs' = 0

RangeLookup(key, name) ==
    /\ \E r \in RangeShardingLookup(key, name) :
         ret' = Call("RangeShardingSpecification.lookup", <<key, name>>,
                     r.outcome, r.value, <<>>)
    /\ UNCHANGED <<shard_mapping, range_spec, groups, shard_db, added,
                   cur, frame>>
    /\ runs' = 0

----------------------------------------------------------------------------
(* Group and server registry (mysql.hub.server), read by the router and    *)
(* the pruner: groups holds the registered groups by group_id, each with   *)
(* its master (a server uuid or None) and its member servers in the order  *)
(* servers() lists them.                                                   *)

\* server.address of each server.
ServerAddress ==
    [s \in Servers |-> IF s = "S1" THEN "host1:3306"
                       ELSE IF s = "S2" THEN "host2:3306" ELSE "host3:3306"]

\* Group(group_id, master, servers)
Group(group_id, master, servers) ==
    [group_id |-> group_id, master |-> master, servers |-> servers]

\* Group.fetch(group_id) finds a group: otherwise it gives None.
GroupFound(group_id) ==
    group_id \in DOMAIN groups

\* str() of a group id or of a server uuid: the text that names it.
Str(x) == x

\* replication.switch_over(group_id, candidate): a member of the group that
\* is not its master becomes its master.
SwitchOver(group_id, candidate) ==
    /\ GroupFound(group_id)
    /\ \E i \in DOMAIN groups[group_id].servers :
         groups[group_id].servers[i] = candidate
    /\ groups[group_id].master # candidate
    /\ groups' = [groups EXCEPT ![group_id].master = candidate]
    /\ ret' = Call("switch_over", <<group_id, candidate>>, OK, TRUE, <<>>)
    /\ UNCHANGED <<shard_mapping, range_spec, shard_db, added, cur, frame>>
    /\ runs' = 0

----------------------------------------------------------------------------
(* Key router: lookup and go_fish_lookup *)

\* Variant: the exception caught and None returned.
Propagate_Swallowed(outcome, calls) ==
    {[outcome |-> OK, value |-> None, calls |-> calls]}

\* An exception leaving the function: nothing catches it.
Propagate(outcome, calls) ==
    {[outcome |-> outcome, value |-> None, calls |-> calls]}

\* Variant: the master is the one remembered from the group's registration,
\* its first member.
LookupServerList_MasterRemembered(group) ==
    [i \in 1..Len(group.servers) |->
       <<Str(group.servers[i]), ServerAddress[group.servers[i]],
         group.servers[1] = group.servers[i]>>]

\* Variant: the master compared with the server's address.
LookupServerList_MasterByAddress(group) ==
    [i \in 1..Len(group.servers) |->
       <<Str(group.servers[i]), ServerAddress[group.servers[i]],
         group.master = ServerAddress[group.servers[i]]>>]

\* lookup's loop over group.servers():
\* [str(server.uuid), server.address, group.master == server.uuid]
LookupServerList(group) ==
    [i \in 1..Len(group.servers) |->
       <<Str(group.servers[i]), ServerAddress[group.servers[i]],
         group.master = group.servers[i]>>]

\* lookup(table_name, key): every way the call can end.
lookup(table_name, key) ==
    UNION {
      IF m.outcome # OK
      THEN Propagate(m.outcome, <<"ShardMapping.fetch">>)
      ELSE IF m.value.type_name = "RANGE"
      THEN UNION {
             IF r.outcome # OK
             THEN Propagate(r.outcome,
                            <<"ShardMapping.fetch",
                              "RangeShardingSpecification.lookup">>)
             ELSE IF GroupFound(Str(r.value.group_id))
             THEN {[outcome |-> OK,
                    value |->
                      LookupServerList(groups[Str(r.value.group_id)]),
                    calls |-> <<"ShardMapping.fetch",
                                "RangeShardingSpecification.lookup",
                                "Group.fetch", "Group.servers">>]}
             ELSE Propagate(AttributeError,
                            <<"ShardMapping.fetch",
                              "RangeShardingSpecification.lookup",
                              "Group.fetch">>)
             : r \in RangeShardingLookup(key,
                                         m.value.sharding_specification)}
      ELSE Propagate(AttributeError, <<"ShardMapping.fetch">>)
      : m \in ShardMappingFetch(table_name)}

\* The orders in which cur.fetchall() may list the rows of a bag.
Orders(bag) ==
    LET S == {o \in DOMAIN bag : bag[o] > 0}
        n == Sum(bag, S)
    IN  {s \in [1..n -> S] :
           \A o \in S : Cardinality({i \in 1..n : s[i] = o}) = bag[o]}

\* Variant: the comparison with the master turned round.
GoFishServerList_Inverted(group) ==
    [i \in 1..Len(group.servers) |->
       <<Str(group.servers[i]), ServerAddress[group.servers[i]],
         group.master # group.servers[i]>>]

\* Variant: each server put at the head of the list, ret.insert(0, ...).
GoFishServerList_Reversed(group) ==
    [i \in 1..Len(group.servers) |->
       LET j == Len(group.servers) + 1 - i
       IN  <<Str(group.servers[j]), ServerAddress[group.servers[j]],
             group.master = group.servers[j]>>]

\* go_fish_lookup's inner loop, as lookup's.
GoFishServerList(group) ==
    [i \in 1..Len(group.servers) |->
       <<Str(group.servers[i]), ServerAddress[group.servers[i]],
         group.master = group.servers[i]>>]

\* server_list[key] = value
SetItem(dict, key, value) ==
    [k \in DOMAIN dict \cup {key} |-> IF k = key THEN value ELSE dict[k]]

\* Variant: the function returns from inside the loop, after the first
\* partition.
GoFishLoop_ReturnInLoop(specs, acc) ==
    IF specs = <<>> THEN acc
    ELSE LET gid == Str(Head(specs).group_id)
         IN  IF GroupFound(gid)
             THEN [server_list |->
                     SetItem(acc.server_list, Str(groups[gid].group_id),
                             GoFishServerList(groups[gid])),
                   calls |-> acc.calls \o <<"Group.fetch", "Group.servers">>]
             ELSE [acc EXCEPT !.calls = @ \o <<"Group.fetch">>]

\* Variant: the loop ends at the first group that is not found.
RECURSIVE GoFishLoop_StopAtUnresolved(_, _)
GoFishLoop_StopAtUnresolved(specs, acc) ==
    IF specs = <<>> THEN acc
    ELSE LET gid == Str(Head(specs).group_id)
         IN  IF GroupFound(gid)
             THEN GoFishLoop_StopAtUnresolved(
                    Tail(specs),
                    [server_list |->
                       SetItem(acc.server_list, Str(groups[gid].group_id),
                               GoFishServerList(groups[gid])),
                     calls |-> acc.calls
                                 \o <<"Group.fetch", "Group.servers">>])
             ELSE [acc EXCEPT !.calls = @ \o <<"Group.fetch">>]

\* go_fish_lookup's loop over the fetched partitions: a group that is not
\* found is passed over.
RECURSIVE GoFishLoop(_, _)
GoFishLoop(specs, acc) ==
    IF specs = <<>> THEN acc
    ELSE LET gid == Str(Head(specs).group_id)
         IN  GoFishLoop(
               Tail(specs),
               IF GroupFound(gid)
               THEN [server_list |->
                       SetItem(acc.server_list, Str(groups[gid].group_id),
                               GoFishServerList(groups[gid])),
                     calls |-> acc.calls
                                 \o <<"Group.fetch", "Group.servers">>]
               ELSE [acc EXCEPT !.calls = @ \o <<"Group.fetch">>])

\* Variant: the partitions fetched whatever the type of the mapping.
go_fish_lookup_AnyType(table_name) ==
    UNION {
      IF m.outcome # OK
      THEN Propagate(m.outcome, <<"ShardMapping.fetch">>)
      ELSE LET f == RangeShardingFetch(m.value.sharding_specification)
               start == [server_list |-> <<>>,
                         calls |-> <<"ShardMapping.fetch",
                                     "RangeShardingSpecification.fetch">>]
           IN  IF f.outcome # OK
               THEN Propagate(f.outcome, start.calls)
               ELSE {[outcome |-> OK,
                      value |-> GoFishLoop(specs, start).server_list,
                      calls |-> GoFishLoop(specs, start).calls]
                     : specs \in Orders(f.value)}
      : m \in ShardMappingFetch(table_name)}

\* go_fish_lookup(table_name): every way the call can end.
go_fish_lookup(table_name) ==
    UNION {
      IF m.outcome # OK
      THEN Propagate(m.outcome, <<"ShardMapping.fetch">>)
      ELSE IF m.value.type_name = "RANGE"
      THEN LET f == RangeShardingFetch(m.value.sharding_specification)
               start == [server_list |-> <<>>,
                         calls |-> <<"ShardMapping.fetch",
                                     "RangeShardingSpecification.fetch">>]
           IN  IF f.outcome # OK
               THEN Propagate(f.outcome, start.calls)
               ELSE {[outcome |-> OK,
                      value |-> GoFishLoop(specs, start).server_list,
                      calls |-> GoFishLoop(specs, start).calls]
                     : specs \in Orders(f.value)}
      ELSE Propagate(UnboundLocalError, <<"ShardMapping.fetch">>)
      : m \in ShardMappingFetch(table_name)}

Lookup(table_name, key) ==
    /\ \E r \in lookup(table_name, key) :
         ret' = Call("lookup", <<table_name, key>>, r.outcome, r.value,
                     r.calls)
    /\ UNCHANGED <<shard_mapping, range_spec, groups, shard_db, added,
                   cur, frame>>
    /\ runs' = 0

\* Variant: the partitions whose group is not found are deleted on the way.
GoFishLookup_DropsDangling(table_name) ==
    /\ \E r \in go_fish_lookup(table_name) :
         ret' = Call("go_fish_lookup", table_name, r.outcome, r.value,
                     r.calls)
    /\ range_spec' =
         [p \in RangeRows |->
            IF GroupFound(Str(p.group_id)) THEN range_spec[p] ELSE 0]
    /\ UNCHANGED <<shard_mapping, groups, shard_db, added, cur, frame>>
    /\ runs' = 0

GoFishLookup(table_name) ==
    /\ \E r \in go_fish_lookup(table_name) :
         ret' = Call("go_fish_lookup", table_name, r.outcome, r.value,
                     r.calls)
    /\ UNCHANGED <<shard_mapping, range_spec, groups, shard_db, added,
                   cur, frame>>
    /\ runs' = 0

----------------------------------------------------------------------------
(* lookup statement by statement.  The function makes three reads, each a  *)
(* statement of its own with no transaction around them: ShardMapping.fetch,*)
(* RangeShardingSpecification.lookup and Group.fetch with servers().  frame *)
(* holds the call in flight: its arguments, the statement reached (pc), the *)
(* locals bound so far, and, to compare the result with, the lists that an  *)
(* undivided lookup gives in the states passed since the call began (seen), *)
(* in the state it began in (started), and whether the row of the table in  *)
(* shard_mapping stayed as it was from the first read to the second         *)
(* (stable).  Other callers' adds and removes run in between; their results *)
(* go to them and are not recorded in ret.                                  *)

\* No call of lookup has begun.
NoFrame == {}

\* The lists lookup(table_name, key) returns in the state as it is.
Answers(table_name, key) ==
    {o.value : o \in {x \in lookup(table_name, key) : x.outcome = OK}}

\* shard_mapping = ShardMapping.fetch(table_name)
RouterFetchMapping(table_name, key) ==
    /\ \A f \in frame : f.pc = "returned"
    /\ \E m \in ShardMappingFetch(table_name) :
         /\ frame' =
              {[table_name |-> table_name, key |-> key,
                pc |-> IF m.outcome = OK THEN "fetched" ELSE "returned",
                shard_mapping |-> IF m.outcome = OK THEN {m.value} ELSE {},
                range_sharding_specification |-> {},
                seen |-> Answers(table_name, key),
                started |-> Answers(table_name, key),
                stable |-> TRUE]}
         /\ IF m.outcome = OK
            THEN UNCHANGED <<ret, runs>>
            ELSE /\ ret' = Call("lookup", <<table_name, key>>, m.outcome,
                                None, <<"ShardMapping.fetch">>)
                 /\ runs' = 0
    /\ UNCHANGED <<shard_mapping, range_spec, groups, shard_db, added, cur>>

\* Variant: the partition looked up in every scheme.
RouterLookupKey_AnyScheme ==
    /\ \E f \in frame :
         /\ f.pc = "fetched"
         /\ \E m \in f.shard_mapping :
              LET rows == {r \in Stored : LOOKUP_KEY_AnyName(r, f.key, r.name)}
              IN  IF m.type_name # "RANGE" \/ rows = {}
                  THEN /\ frame' = {[f EXCEPT !.pc = "returned"]}
                       /\ ret' = Call("lookup", <<f.table_name, f.key>>,
                                      IF m.type_name # "RANGE"
                                      THEN AttributeError ELSE ShardingError,
                                      None, <<"ShardMapping.fetch">>)
                       /\ runs' = 0
                  ELSE /\ \E r \in rows :
                            frame' =
                              {[f EXCEPT
                                  !.pc = "looked_up",
                                  !.range_sharding_specification = {r}]}
                       /\ UNCHANGED <<ret, runs>>
    /\ UNCHANGED <<shard_mapping, range_spec, groups, shard_db, added, cur>>

\* if shard_mapping.type_name == "RANGE":
\*     range_sharding_specification = RangeShardingSpecification.lookup(
\*         key, shard_mapping.sharding_specification)
\* With another type group stays None and group.servers() fails.
RouterLookupKey ==
    /\ \E f \in frame :
         /\ f.pc = "fetched"
         /\ \E m \in f.shard_mapping :
              IF m.type_name # "RANGE"
              THEN /\ frame' = {[f EXCEPT !.pc = "returned"]}
                   /\ ret' = Call("lookup", <<f.table_name, f.key>>,
                                  AttributeError, None,
                                  <<"ShardMapping.fetch">>)
                   /\ runs' = 0
              ELSE \E r \in RangeShardingLookup(f.key,
                                                 m.sharding_specification) :
                     IF r.outcome # OK
                     THEN /\ frame' = {[f EXCEPT !.pc = "returned"]}
                          /\ ret' = Call("lookup", <<f.table_name, f.key>>,
                                         r.outcome, None,
                                         <<"ShardMapping.fetch",
                                           "RangeShardingSpecification.lookup">>)
                          /\ runs' = 0
                     ELSE /\ frame' =
                               {[f EXCEPT
                                   !.pc = "looked_up",
                                   !.range_sharding_specification =
                                     {r.value}]}
                          /\ UNCHANGED <<ret, runs>>
    /\ UNCHANGED <<shard_mapping, range_spec, groups, shard_db, added, cur>>

\* group = Group.fetch(str(range_sharding_specification.group_id)), the loop
\* over group.servers() and the return.
RouterFetchGroup ==
    /\ \E f \in frame :
         /\ f.pc = "looked_up"
         /\ frame' = {[f EXCEPT !.pc = "returned"]}
         /\ \E p \in f.range_sharding_specification :
              ret' =
                IF GroupFound(Str(p.group_id))
                THEN Call("lookup", <<f.table_name, f.key>>, OK,
                          LookupServerList(groups[Str(p.group_id)]),
                          <<"ShardMapping.fetch",
                            "RangeShardingSpecification.lookup",
                            "Group.fetch", "Group.servers">>)
                ELSE Call("lookup", <<f.table_name, f.key>>, AttributeError,
                          None,
                          <<"ShardMapping.fetch",
                            "RangeShardingSpecification.lookup",
                            "Group.fetch">>)
    /\ runs' = 0
    /\ UNCHANGED <<shard_mapping, range_spec, groups, shard_db, added, cur>>

\* What a statement of another caller adds to the record of the call in
\* flight: the lists lookup gives in the state the statement leaves, and
\* whether the row of the table changed between the first two reads.
Observe ==
    frame' =
      {[f EXCEPT
          !.seen = IF f.pc = "returned" THEN @
                   ELSE @ \cup Answers(f.table_name, f.key)',
          !.stable =
            IF f.pc = "fetched"
            THEN @ /\ ({r \in shard_mapping : r.table_name = f.table_name}'
                        = {r \in shard_mapping :
                             r.table_name = f.table_name})
            ELSE @] : f \in frame}

\* ShardMapping.add by another caller.
OtherMappingAdd(table_name, column_name, type_name, sharding_specification) ==
    LET m == ShardMapping(table_name, column_name, type_name,
                          sharding_specification)
    IN  /\ IF PrimaryKeyViolation(table_name)
           THEN UNCHANGED <<shard_mapping, added>>
           ELSE /\ shard_mapping' = shard_mapping \cup {m}
                /\ added' = [added EXCEPT ![table_name] = {m}]
        /\ UNCHANGED <<range_spec, groups, shard_db, ret, runs, cur>>
        /\ Observe

\* ShardMapping.remove by another caller.
OtherMappingRemove(self) ==
    /\ shard_mapping' =
         {r \in shard_mapping : ~DELETE_SHARD_MAPPING(r, self.table_name)}
    /\ added' = [added EXCEPT ![self.table_name] = {}]
    /\ UNCHANGED <<range_spec, groups, shard_db, ret, runs, cur>>
    /\ Observe

\* RangeShardingSpecification.add by another caller.
OtherRangeAdd(name, lower_bound, upper_bound, group_id) ==
    LET p == RangeShardingSpecification(name, lower_bound, upper_bound,
                                        group_id)
    IN  /\ Sum(range_spec, RangeRows) < MaxRanges
        /\ range_spec' = [range_spec EXCEPT ![p] = @ + 1]
        /\ UNCHANGED <<shard_mapping, groups, shard_db, ret, added, runs, cur>>
        /\ Observe

\* RangeShardingSpecification.remove by another caller.
OtherRangeRemove(name, lower_bound, upper_bound) ==
    /\ range_spec' =
         [r \in RangeRows |->
            IF DELETE_RANGE_SPECIFICATION(r, name, lower_bound, upper_bound)
            THEN 0 ELSE range_spec[r]]
    /\ UNCHANGED <<shard_mapping, groups, shard_db, ret, added, runs, cur>>
    /\ Observe

----------------------------------------------------------------------------
(* Shard pruner: RangeShardingSpecification.delete_from_shard_db.          *)
(* shard_db[s][t] holds the rows of table t on server s.                   *)

\* value NOT BETWEEN lower_bound and upper_bound
NotBetween(value, lower_bound, upper_bound) ==
    ~(value >= lower_bound /\ value <= upper_bound)

\* master.exec_stmt("DELETE FROM table_name WHERE column_name NOT BETWEEN
\* lower_bound and upper_bound") on server master: the data it leaves.
ExecDelete(db, master, table_name, column_name, lower_bound, upper_bound) ==
    [db EXCEPT ![master][table_name] =
       {row \in @ : ~NotBetween(row[column_name], lower_bound, upper_bound)}]

\* Variant: the name that is bound is the name that is read.
PrunerLocals_Bound(shard_mapping_obj) ==
    [sharding_specification |-> shard_mapping_obj.sharding_specification]

\* The local names bound when the scheme is read from the mapping:
\* ssharding_specification = shard_mapping.sharding_specification
PrunerLocals(shard_mapping_obj) ==
    [ssharding_specification |-> shard_mapping_obj.sharding_specification]

\* The loop over the fetched partitions: for each, the group, its master, a
\* connection and the DELETE.  Group.fetch gives None for an unknown group
\* and MySQLServer.fetch gives None for no master: the next attribute read
\* raises AttributeError and ends the loop.
RECURSIVE PruneLoop(_, _, _)
PruneLoop(m, specs, acc) ==
    IF specs = <<>> THEN acc
    ELSE LET spec == Head(specs)
         IN  IF ~GroupFound(spec.group_id)
             THEN [acc EXCEPT !.outcome = AttributeError,
                              !.calls = @ \o <<"Group.fetch">>]
             ELSE IF groups[spec.group_id].master = None
             THEN [acc EXCEPT !.outcome = AttributeError,
                              !.calls = @ \o <<"Group.fetch",
                                               "MySQLServer.fetch">>]
             ELSE PruneLoop(
                    m, Tail(specs),
                    [acc EXCEPT
                       !.db = ExecDelete(@, groups[spec.group_id].master,
                                         m.table_name, m.column_name,
                                         spec.lower_bound, spec.upper_bound),
                       !.calls = @ \o <<"Group.fetch", "MySQLServer.fetch",
                                        "connect", "exec_stmt">>])

\* delete_from_shard_db(table_name): every way the call can end, with the
\* data it leaves.  The scheme is read under the name sharding_specification.
delete_from_shard_db(table_name) ==
    UNION {
      IF m.outcome # OK
      THEN {[outcome |-> m.outcome, value |-> None, db |-> shard_db,
             calls |-> <<"ShardMapping.fetch">>]}
      ELSE IF "sharding_specification" \notin DOMAIN PrunerLocals(m.value)
      THEN {[outcome |-> NameError, value |-> None, db |-> shard_db,
             calls |-> <<"ShardMapping.fetch">>]}
      ELSE LET name == PrunerLocals(m.value)["sharding_specification"]
               f == RangeShardingFetch(name)
               start == [outcome |-> OK, db |-> shard_db,
                         calls |-> <<"ShardMapping.fetch",
                                     "RangeShardingSpecification.fetch">>]
           IN  IF f.outcome # OK
               THEN {[outcome |-> f.outcome, value |-> None,
                      db |-> shard_db, calls |-> start.calls]}
               ELSE {LET end == PruneLoop(m.value, specs, start)
                     IN  [outcome |-> end.outcome,
                          value |-> IF end.outcome = OK THEN TRUE ELSE None,
                          db |-> end.db, calls |-> end.calls]
                     : specs \in Orders(f.value)}
      : m \in ShardMappingFetch(table_name)}

\* The runs of the pruner in a row for table_name, this one included.
RunsInARow(table_name) ==
    IF ret.op = "delete_from_shard_db" /\ ret.args = table_name
    THEN runs + 1 ELSE 1

DeleteFromShardDb(table_name) ==
    /\ RunsInARow(table_name) <= MaxRuns
    /\ \E r \in delete_from_shard_db(table_name) :
         /\ ret' = Call("delete_from_shard_db", table_name, r.outcome,
                        r.value, r.calls)
         /\ shard_db' = r.db
    /\ runs' = RunsInARow(table_name)
    /\ UNCHANGED <<shard_mapping, range_spec, groups, added, cur, frame>>

----------------------------------------------------------------------------
(* Specifications *)

NoRanges == [r \in RangeRows |-> 0]

NoGroups == [g \in {} |-> None]

NoData == [s \in Servers |-> [t \in Tables |-> {}]]

NotAdded == [t \in Tables |-> {}]

\* The shard mapping catalog alone, from the empty table.
InitMap ==
    /\ shard_mapping = {}
    /\ range_spec = NoRanges
    /\ groups = NoGroups
    /\ shard_db = NoData
    /\ ret = NoCall
    /\ added = NotAdded
    /\ runs = 0
    /\ cur = NoCursor
    /\ frame = NoFrame

NextMap ==
    \/ \E t \in Tables, c \in Columns, ty \in Types, s \in Schemes :
         MappingAdd(t, c, ty, s)
    \/ \E self \in MappingRows : MappingRemove(self)
    \/ \E t \in Tables : MappingFetch(t)
    \/ \E ty \in ListTypes : MappingList(ty)

SpecMap == InitMap /\ [][NextMap]_vars

\* The range partition catalog alone, from the empty table.
InitRange == InitMap

NextRange ==
    \/ \E n \in Schemes, b \in RangeChoices, g \in GroupIds :
         RangeAdd(n, b[1], b[2], g)
    \/ \E n \in Schemes, b \in RangeChoices : RangeRemove(n, b[1], b[2])
    \/ \E n \in Schemes : RangeFetch(n)
    \/ \E k \in LookupKeys, n \in Schemes : RangeLookup(k, n)

SpecRange == InitRange /\ [][NextRange]_vars

\* The router over every catalog and registry it may find: the mapping of
\* db1.t1 (db1.t2 is never mapped), up to MaxRouterRanges partitions, and a
\* registry in which GroupID1 has two members and GroupID2, when registered,
\* one; a group may be without a master.
RouterMappings ==
    {{}} \cup {{ShardMapping("db1.t1", "userID", ty, s)} :
                 ty \in Types, s \in Schemes}

\* The table after the rows of sequence rows were inserted into the empty one.
Inserted(rows) ==
    [r \in RangeRows |-> Cardinality({i \in DOMAIN rows : rows[i] = r})]

RouterRanges ==
    {Inserted(rows) :
       rows \in UNION {[1..n -> RangeRows] : n \in 0..MaxRouterRanges}}

RouterRegistries ==
    {[g \in {"GroupID1"} |-> Group(g, m1, <<"S1", "S2">>)] :
       m1 \in {"S1", "S2", None}}
    \cup {[g \in GroupIds |->
             IF g = "GroupID1" THEN Group(g, m1, <<"S1", "S2">>)
             ELSE Group(g, m2, <<"S3">>)] :
           m1 \in {"S1", "S2", None}, m2 \in {"S3", None}}

InitRouter ==
    /\ shard_mapping \in RouterMappings
    /\ range_spec \in RouterRanges
    /\ groups \in RouterRegistries
    /\ shard_db = NoData
    /\ ret = NoCall
    /\ added = NotAdded
    /\ runs = 0
    /\ cur = NoCursor
    /\ frame = NoFrame

NextRouter ==
    \/ \E t \in Tables, k \in LookupKeys : Lookup(t, k)
    \/ \E t \in Tables : GoFishLookup(t)

SpecRouter == InitRouter /\ [][NextRouter]_vars

\* The pruner over every catalog and registry it may find, each server
\* holding the full copy of db1.t1.
PrunerMappings ==
    {{}} \cup {{ShardMapping("db1.t1", c, "RANGE", "first")} : c \in Columns}

PrunerRanges ==
    {Inserted(rows) :
       rows \in UNION {[1..n -> RangeRows] : n \in 0..MaxPrunerRanges}}

FullCopy ==
    [s \in Servers |-> [t \in Tables |->
       IF t = "db1.t1" THEN DataRows ELSE {}]]

InitPruner ==
    /\ shard_mapping \in PrunerMappings
    /\ range_spec \in PrunerRanges
    /\ groups \in RouterRegistries
    /\ shard_db = FullCopy
    /\ ret = NoCall
    /\ added = NotAdded
    /\ runs = 0
    /\ cur = NoCursor
    /\ frame = NoFrame

NextPruner ==
    \E t \in Tables : DeleteFromShardDb(t)

SpecPruner == InitPruner /\ [][NextPruner]_vars

\* The directory in use: both tables mapped to scheme "first", which has one
\* partition, both groups registered; mappings are removed, partitions added,
\* removed and fetched, masters switched over, and keys looked up in between.
DirectoryMappings ==
    {ShardMapping(t, "userID", "RANGE", "first") : t \in Tables}

DirectoryRanges == {<<0, 1000>>, <<0, 2000>>}

DirectoryRegistry ==
    [g \in GroupIds |->
       IF g = "GroupID1" THEN Group(g, "S1", <<"S1", "S2">>)
       ELSE Group(g, "S3", <<"S3">>)]

InitDirectory ==
    /\ shard_mapping = DirectoryMappings
    /\ range_spec =
         Inserted(<<RangeShardingSpecification("first", 0, 1000, "GroupID1")>>)
    /\ groups = DirectoryRegistry
    /\ shard_db = FullCopy
    /\ ret = NoCall
    /\ added = NotAdded
    /\ runs = 0
    /\ cur = NoCursor
    /\ frame = NoFrame

NextDirectory ==
    \/ \E self \in DirectoryMappings : MappingRemove(self)
    \/ \E n \in Schemes, b \in DirectoryRanges, g \in GroupIds :
         RangeAdd(n, b[1], b[2], g)
    \/ \E n \in Schemes, b \in DirectoryRanges : RangeRemove(n, b[1], b[2])
    \/ \E n \in Schemes : RangeFetch(n)
    \/ \E g \in GroupIds, s \in Servers : SwitchOver(g, s)
    \/ \E t \in Tables, k \in LookupKeys : Lookup(t, k)
    \/ \E t \in Tables : GoFishLookup(t)

SpecDirectory == InitDirectory /\ [][NextDirectory]_vars

\* A lookup in two steps while other callers add partitions: scheme "first"
\* starts with the partition [0, 1000] of GroupID1.
RacePartition == RangeShardingSpecification("first", 0, 1000, "GroupID1")

InitRace ==
    /\ shard_mapping = {}
    /\ range_spec = Inserted(<<RacePartition>>)
    /\ groups = DirectoryRegistry
    /\ shard_db = NoData
    /\ ret = NoCall
    /\ added = NotAdded
    /\ runs = 0
    /\ cur = NoCursor
    /\ frame = NoFrame

NextRace ==
    \/ \E k \in LookupKeys, n \in Schemes : RangeLookupExecute(k, n)
    \/ RangeLookupFetchone
    \/ \E n \in Schemes, b \in DirectoryRanges, g \in GroupIds :
         RangeAdd(n, b[1], b[2], g)

SpecRace == InitRace /\ [][NextRace]_vars

\* Removes from a catalog that was filled before: scheme "first" holds the
\* range [0, 1000] twice, once for each group, next to up to MaxRouterRanges
\* other rows; no row is added any more.
TwinPartitions ==
    <<RangeShardingSpecification("first", 0, 1000, "GroupID1"),
      RangeShardingSpecification("first", 0, 1000, "GroupID2")>>

RemoveRanges ==
    {Inserted(TwinPartitions \o rows) :
       rows \in UNION {[1..n -> RangeRows] : n \in 0..MaxRouterRanges}}

InitRemove ==
    /\ shard_mapping = {}
    /\ range_spec \in RemoveRanges
    /\ groups = DirectoryRegistry
    /\ shard_db = NoData
    /\ ret = NoCall
    /\ added = NotAdded
    /\ runs = 0
    /\ cur = NoCursor
    /\ frame = NoFrame

NextRemove ==
    \/ \E n \in Schemes, b \in RangeChoices : RangeRemove(n, b[1], b[2])
    \/ \E n \in Schemes : RangeFetch(n)

SpecRemove == InitRemove /\ [][NextRemove]_vars

\* Every operation of the module on one directory: both tables mapped and
\* unmapped again, with either type, to scheme "first", whose partitions are
\* added and removed; GroupID1 is registered, GroupID2 is not.
CoreRegistry ==
    [g \in {"GroupID1"} |-> Group(g, "S1", <<"S1", "S2">>)]

CoreMappings ==
    {ShardMapping(t, "userID", ty, "first") : t \in Tables, ty \in Types}

InitCore ==
    /\ shard_mapping = {}
    /\ range_spec = NoRanges
    /\ groups = CoreRegistry
    /\ shard_db = FullCopy
    /\ ret = NoCall
    /\ added = NotAdded
    /\ runs = 0
    /\ cur = NoCursor
    /\ frame = NoFrame

NextCore ==
    \/ \E m \in CoreMappings :
         MappingAdd(m.table_name, m.column_name, m.type_name,
                    m.sharding_specification)
    \/ \E self \in CoreMappings : MappingRemove(self)
    \/ \E t \in Tables : MappingFetch(t)
    \/ \E ty \in ListTypes : MappingList(ty)
    \/ \E b \in DirectoryRanges, g \in GroupIds :
         RangeAdd("first", b[1], b[2], g)
    \/ \E b \in DirectoryRanges : RangeRemove("first", b[1], b[2])
    \/ \E n \in Schemes : RangeFetch(n)
    \/ \E k \in LookupKeys, n \in Schemes : RangeLookup(k, n)
    \/ \E t \in Tables, k \in LookupKeys : Lookup(t, k)
    \/ \E t \in Tables : GoFishLookup(t)
    \/ \E t \in Tables : DeleteFromShardDb(t)

SpecCore == InitCore /\ [][NextCore]_vars

\* A lookup of db1.t1 statement by statement while other callers map and
\* unmap the table and add and remove the partition [0, 1000] of either
\* scheme for either group.
SnapshotMappings ==
    {ShardMapping("db1.t1", "userID", "RANGE", s) : s \in Schemes}

InitSnapshot ==
    /\ shard_mapping = {ShardMapping("db1.t1", "userID", "RANGE", "first")}
    /\ range_spec = Inserted(<<RacePartition>>)
    /\ groups = DirectoryRegistry
    /\ shard_db = NoData
    /\ ret = NoCall
    /\ added = NotAdded
    /\ runs = 0
    /\ cur = NoCursor
    /\ frame = NoFrame

NextSnapshot ==
    \/ \E k \in LookupKeys : RouterFetchMapping("db1.t1", k)
    \/ RouterLookupKey
    \/ RouterFetchGroup
    \/ \E m \in SnapshotMappings :
         OtherMappingAdd(m.table_name, m.column_name, m.type_name,
                         m.sharding_specification)
    \/ \E m \in SnapshotMappings : OtherMappingRemove(m)
    \/ \E n \in Schemes, g \in GroupIds : OtherRangeAdd(n, 0, 1000, g)
    \/ \E n \in Schemes : OtherRangeRemove(n, 0, 1000)

SpecSnapshot == InitSnapshot /\ [][NextSnapshot]_vars

\* The whole directory: both catalogs from their empty tables, a registry and
\* the servers' data as found, and every operation.
Init ==
    /\ shard_mapping = {}
    /\ range_spec = NoRanges
    /\ groups \in RouterRegistries
    /\ shard_db = FullCopy
    /\ ret = NoCall
    /\ added = NotAdded
    /\ runs = 0
    /\ cur = NoCursor
    /\ frame = NoFrame

Next ==
    \/ NextMap
    \/ NextRange
    \/ NextRouter
    \/ NextPruner
    \/ \E g \in GroupIds, s \in Servers : SwitchOver(g, s)
    \/ \E k \in LookupKeys, n \in Schemes : RangeLookupExecute(k, n)
    \/ RangeLookupFetchone
    \/ NextSnapshot

Spec == Init /\ [][Next]_vars

----------------------------------------------------------------------------
(* Properties of the range partition catalog (SpecRange) *)

\* The rows stored for table t.
RowsOf(t) == {r \in shard_mapping : r.table_name = t}

\* Partition p covers key: lower_bound <= key <= upper_bound, both inclusive.
Covers(p, key) ==
    p.lower_bound <= key /\ key <= p.upper_bound

\* The stored partitions of scheme name that cover key.
Covering(key, name) ==
    {p \in RangeRows : range_spec[p] > 0 /\ p.name = name /\ Covers(p, key)}

\* The stored partitions of scheme name are pairwise non-overlapping: no row
\* is stored twice and no two rows share a key.
NonOverlapping(name) ==
    \A p, q \in RangeRows :
      (range_spec[p] > 0 /\ range_spec[q] > 0 /\ p.name = name
         /\ q.name = name)
      => /\ range_spec[p] = 1
         /\ (p # q => (p.upper_bound < q.lower_bound
                         \/ q.upper_bound < p.lower_bound))

\* The catalog of the class's example: [0,1000], [1001,2000], [2001,3000]
\* stored for scheme "first", the first for GroupID1, the second for GroupID2.
ExampleStored ==
    /\ range_spec[RangeShardingSpecification("first", 0, 1000, "GroupID1")]
         = 1
    /\ range_spec[RangeShardingSpecification("first", 1001, 2000, "GroupID2")]
         = 1
    /\ \E g \in GroupIds :
         range_spec[RangeShardingSpecification("first", 2001, 3000, g)] = 1

\* C1: RangeShardingSpecification.lookup(key, name), over a scheme whose
\* stored partitions are pairwise non-overlapping, returns exactly the stored
\* partition of that scheme that covers key (bounds inclusive), with its
\* bounds and group_id, whenever there is one; so with the example catalog it
\* gives GroupID1 for 500 and 1000 and GroupID2 for 1001.
C1_LookupReturnsCoveringPartition ==
    ret.op = "RangeShardingSpecification.lookup"
    => LET key == ret.args[1]
           name == ret.args[2]
       IN  /\ NonOverlapping(name)
              => \A p \in Covering(key, name) :
                   ret.outcome = OK /\ ret.value = p
           /\ (ExampleStored /\ NonOverlapping(name) /\ name = "first")
              => /\ key \in {500, 1000}
                    => ret.outcome = OK /\ ret.value.group_id = "GroupID1"
                 /\ key = 1001
                    => ret.outcome = OK /\ ret.value.group_id = "GroupID2"

\* A lookup of the boundary key 1000 in the example catalog, answered with
\* the partition of GroupID1.
C1_Witness ==
    /\ ret.op = "RangeShardingSpecification.lookup"
    /\ ret.args = <<1000, "first">>
    /\ ExampleStored
    /\ NonOverlapping("first")
    /\ ret.outcome = OK
    /\ ret.value = RangeShardingSpecification("first", 0, 1000, "GroupID1")

\* C2: RangeShardingSpecification.lookup(key, name) raises ShardingError,
\* returns no partition and leaves the range catalog as it was whenever no
\* stored partition of scheme name covers key, also when a partition of
\* another scheme does.
C2_LookupNotFound ==
    [][\A k \in LookupKeys, n \in Schemes :
         (RangeLookup(k, n) /\ Covering(k, n) = {})
         => /\ ret'.outcome = ShardingError
            /\ ret'.value = None
            /\ range_spec' = range_spec]_vars

\* A failed lookup of a key that only a partition of the other scheme covers.
C2_Witness ==
    /\ ret.op = "RangeShardingSpecification.lookup"
    /\ ret.outcome = ShardingError
    /\ LET key == ret.args[1]
           name == ret.args[2]
       IN  /\ Covering(key, name) = {}
           /\ \E n \in Schemes \ {name} : Covering(key, n) # {}

\* The number of copies of partition object o that fetch result f holds.
Returned(f, o) ==
    IF f.outcome = OK THEN f.value[o] ELSE 0

\* C8: after RangeShardingSpecification.add(name, lo, hi, group), fetch(name)
\* includes a partition (lo, hi, group); after remove of (name, lo, hi),
\* fetch(name) includes no partition with bounds (lo, hi) and returns every
\* other partition of the scheme as before.
C8_RangeRoundTrip ==
    [][/\ ret'.op = "RangeShardingSpecification.add"
            => \A p \in RangeRows :
                 p = ret'.args
                 => Returned(RangeShardingFetch(p.name)', p) >= 1
       /\ ret'.op = "RangeShardingSpecification.remove"
            => \A n \in Schemes, b \in RangeChoices :
                 <<n, b[1], b[2]>> = ret'.args
                 => \A before \in {RangeShardingFetch(n)},
                       after \in {RangeShardingFetch(n)'} :
                      \A o \in RangeRows :
                        o.name = n
                        => IF o.lower_bound = b[1] /\ o.upper_bound = b[2]
                           THEN Returned(after, o) = 0
                           ELSE Returned(after, o) = Returned(before, o)]_vars

\* A remove that took a partition away while another partition of the same
\* scheme, with the same lower bound, stayed.
C8_Witness ==
    /\ ret.op = "RangeShardingSpecification.remove"
    /\ ret.args = <<"first", 0, 1000>>
    /\ \E g \in GroupIds :
         range_spec[RangeShardingSpecification("first", 0, 2000, g)] > 0

\* Rows p and q share a key.
Overlap(p, q) ==
    p.lower_bound <= q.upper_bound /\ q.lower_bound <= p.upper_bound

\* C22: RangeShardingSpecification.add(name, lo, hi, group) succeeds and
\* stores one more row (name, lo, hi, group), leaving every other row as it
\* was, whatever is stored: also when a partition of the scheme with the same
\* or an overlapping range is.
C22_AddUnchecked ==
    [][ret'.op = "RangeShardingSpecification.add"
       => \A p \in RangeRows :
            p = ret'.args
            => /\ ret'.outcome = OK
               /\ ret'.value = p
               /\ range_spec' = [range_spec EXCEPT ![p] = @ + 1]]_vars

\* An add that has just stored a partition over keys that another stored
\* partition of the same scheme, of the other group, covers: key 500 is
\* covered by two partitions.
C22_Witness ==
    /\ ret.op = "RangeShardingSpecification.add"
    /\ ret.outcome = OK
    /\ range_spec[ret.args] = 1
    /\ \E q \in Stored :
         /\ q.name = ret.args.name
         /\ q.group_id # ret.args.group_id
         /\ Overlap(q, ret.args)
    /\ Cardinality(Covering(500, ret.args.name)) >= 2
    /\ ~NonOverlapping(ret.args.name)

----------------------------------------------------------------------------
(* Properties of the key router (SpecRouter) *)

\* The elements of a sequence.
Range(seq) == {seq[i] : i \in DOMAIN seq}

\* list holds exactly one tuple [uuid, address, isPrimary] for each member of
\* group and none for another server, isPrimary being true for the group's
\* master and for no other member.
ExactTuples(list, group) ==
    /\ \A s \in Range(group.servers) :
         Cardinality({i \in DOMAIN list : list[i][1] = s}) = 1
    /\ \A i \in DOMAIN list :
         /\ list[i][1] \in Range(group.servers)
         /\ list[i][2] = ServerAddress[list[i][1]]
         /\ list[i][3] = (list[i][1] = group.master)

PartitionsOf(m) ==
    {p \in RangeRows : range_spec[p] > 0 /\ p.name = m.sharding_specification}

\* C4: go_fish_lookup(table_name) for a table mapped with type RANGE whose
\* scheme has partitions returns a mapping whose keys are exactly the group
\* ids of those partitions that the registry resolves: one entry per group,
\* also when two partitions name the same group.
C4_GoFishKeys ==
    ret.op = "go_fish_lookup"
    => \A m \in RowsOf(ret.args) :
         /\ (m.type_name = "RANGE" /\ PartitionsOf(m) # {})
              => ret.outcome = OK
         /\ ret.outcome = OK
              => DOMAIN ret.value
                   = {p.group_id : p \in PartitionsOf(m)} \cap DOMAIN groups

\* A go_fish_lookup over a scheme with two partitions of one group, answered
\* with the one entry of that group.
C4_Witness ==
    /\ ret.op = "go_fish_lookup"
    /\ ret.outcome = OK
    /\ \E m \in RowsOf(ret.args) :
         /\ Cardinality(PartitionsOf(m)) = 2
         /\ \A p \in PartitionsOf(m) : p.group_id = "GroupID1"
    /\ DOMAIN ret.value = {"GroupID1"}

\* The table a router call was made for.
TableOf(call) ==
    IF call.op = "lookup" THEN call.args[1] ELSE call.args

\* C5: lookup and go_fish_lookup on a table with no row in shard_mapping end
\* with the ShardingError of ShardMapping.fetch, having made no call after
\* ShardMapping.fetch: no read of the range catalog, no Group or server call.
C5_UnknownTable ==
    (ret.op \in {"lookup", "go_fish_lookup"} /\ RowsOf(TableOf(ret)) = {})
    => /\ ret.outcome = ShardingError
       /\ ret.calls = <<"ShardMapping.fetch">>

\* A failed lookup of the unmapped db1.t2 while db1.t1 is mapped and a
\* partition of a registered group covers the key.
C5_Witness ==
    /\ ret.op = "lookup"
    /\ ret.args[1] = "db1.t2"
    /\ ret.outcome = ShardingError
    /\ RowsOf("db1.t1") # {}
    /\ \E p \in Covering(ret.args[2], "first") : GroupFound(p.group_id)

\* C12: go_fish_lookup(table_name), for a table mapped with type RANGE whose
\* scheme has partitions, succeeds also when the group of some partition is
\* not registered: the result has no entry for such a group and has, for
\* every partition whose group is registered, the entry of that group with
\* one tuple per member server, in whatever order the partitions were
\* fetched.
C12_GoFishBestEffort ==
    ret.op = "go_fish_lookup"
    => \A m \in RowsOf(ret.args) :
         (m.type_name = "RANGE" /\ PartitionsOf(m) # {})
         => /\ ret.outcome = OK
            /\ \A p \in PartitionsOf(m) :
                 IF GroupFound(p.group_id)
                 THEN /\ p.group_id \in DOMAIN ret.value
                      /\ ExactTuples(ret.value[p.group_id],
                                     groups[p.group_id])
                 ELSE p.group_id \notin DOMAIN ret.value

\* A go_fish_lookup that met a partition of the unregistered GroupID2 first
\* and a partition of GroupID1 after it, answered with the entry of GroupID1.
C12_Witness ==
    /\ ret.op = "go_fish_lookup"
    /\ ret.outcome = OK
    /\ ~GroupFound("GroupID2")
    /\ ret.calls = <<"ShardMapping.fetch", "RangeShardingSpecification.fetch",
                     "Group.fetch", "Group.fetch", "Group.servers">>
    /\ DOMAIN ret.value = {"GroupID1"}
    /\ Len(ret.value["GroupID1"]) = 2

----------------------------------------------------------------------------
(* Properties of the shard pruner (SpecPruner) *)

\* Every partition of the scheme of mapping m names a registered group that
\* has a master.
PrimariesResolve(m) ==
    \A p \in PartitionsOf(m) :
      GroupFound(p.group_id) /\ groups[p.group_id].master # None

\* The primary of the group of partition p holds no row of the table of
\* mapping m whose sharding column is outside [lower_bound, upper_bound].
HoldsOnlyOwnRange(m, p) ==
    \A row \in shard_db[groups[p.group_id].master][m.table_name] :
      p.lower_bound <= row[m.column_name]
        /\ row[m.column_name] <= p.upper_bound

\* C9: delete_from_shard_db(table_name), for a table whose scheme has
\* partitions that all resolve to a primary, returns success and leaves, for
\* every partition (lo, hi, G) of the scheme, the copy of the table on G's
\* primary without a row whose sharding column is outside [lo, hi].
C9_PrunePostcondition ==
    ret.op = "delete_from_shard_db"
    => \A m \in RowsOf(ret.args) :
         (PartitionsOf(m) # {} /\ PrimariesResolve(m))
         => /\ ret.outcome = OK
            /\ \A p \in PartitionsOf(m) : HoldsOnlyOwnRange(m, p)

RECURSIVE Repeat(_, _)
Repeat(seq, n) ==
    IF n = 0 THEN <<>> ELSE seq \o Repeat(seq, n - 1)

\* C11: delete_from_shard_db(table_name), for a table whose scheme has
\* partitions that all resolve to a primary, calls ShardMapping.fetch, then
\* RangeShardingSpecification.fetch, and then once for each stored partition
\* of the scheme, in this order, Group.fetch, MySQLServer.fetch, connect and
\* exec_stmt of the DELETE; it makes no other call.
C11_PrunerSteps ==
    ret.op = "delete_from_shard_db"
    => \A m \in RowsOf(ret.args) :
         (PartitionsOf(m) # {} /\ PrimariesResolve(m))
         => ret.calls
              = <<"ShardMapping.fetch", "RangeShardingSpecification.fetch">>
                  \o Repeat(<<"Group.fetch", "MySQLServer.fetch", "connect",
                              "exec_stmt">>,
                            Sum(range_spec, PartitionsOf(m)))

\* Partition p names a registered group that has a master.
Resolves(p) ==
    GroupFound(p.group_id) /\ groups[p.group_id].master # None

\* The data db after the copy of the table of mapping m on the primary of
\* each partition of specs, in turn, lost its rows outside the partition.
RECURSIVE Pruned(_, _, _)
Pruned(db, m, specs) ==
    IF specs = <<>> THEN db
    ELSE LET p == Head(specs)
         IN  Pruned([db EXCEPT ![groups[p.group_id].master][m.table_name] =
                       {row \in @ : /\ p.lower_bound <= row[m.column_name]
                                    /\ row[m.column_name] <= p.upper_bound}],
                    m, Tail(specs))

\* C17: when delete_from_shard_db(table_name) meets, as the k-th partition of
\* its loop, the first one whose group is not registered or has no master,
\* it ends with that failure, having pruned the primaries of the k-1
\* partitions before it and left every other copy as it was.
C17_PartialFailure ==
    [][\A t \in Tables :
         (ret'.op = "delete_from_shard_db" /\ ret'.args = t)
         => \A m \in RowsOf(t) :
              (\E p \in PartitionsOf(m) : ~Resolves(p))
              => \E specs \in Orders([o \in RangeRows |->
                                        IF o \in PartitionsOf(m)
                                        THEN range_spec[o] ELSE 0]) :
                   \E k \in DOMAIN specs :
                     /\ ~Resolves(specs[k])
                     /\ \A i \in 1..(k - 1) : Resolves(specs[i])
                     /\ ret'.outcome = AttributeError
                     /\ shard_db' = Pruned(shard_db, m, SubSeq(specs, 1, k - 1))
      ]_vars

\* The positions of call name in the sequence calls.
Positions(calls, name) ==
    {i \in DOMAIN calls : calls[i] = name}

----------------------------------------------------------------------------
(* Properties of the shard mapping catalog (SpecMap) *)

\* C6: ShardMapping.add for a table already mapped fails with the store's
\* duplicate-key error and leaves the one row of the table as it was; the
\* catalog never holds two rows of one table_name.
C6_Uniqueness ==
    /\ [](\A t \in Tables : Cardinality(RowsOf(t)) <= 1)
    /\ [][\A t \in Tables, c \in Columns, ty \in Types, s \in Schemes :
            (MappingAdd(t, c, ty, s) /\ RowsOf(t) # {})
            => /\ ret'.outcome = DuplicateKey
               /\ RowsOf(t)' = RowsOf(t)
               /\ Cardinality(RowsOf(t)') = 1]_vars

\* A rejected second add whose column, type and scheme all differ from the
\* row already stored.
C6_Witness ==
    /\ ret.op = "ShardMapping.add"
    /\ ret.outcome = DuplicateKey
    /\ \E r \in RowsOf(ret.args.table_name) :
         /\ r.column_name # ret.args.column_name
         /\ r.type_name # ret.args.type_name
         /\ r.sharding_specification # ret.args.sharding_specification

\* C7: from a successful ShardMapping.add(T, column, type, scheme) until a
\* remove of T, ShardMapping.fetch(T) returns a mapping with exactly the four
\* values passed to add, whatever was added or removed for other tables.
C7_MappingRoundTrip ==
    \A t \in Tables :
      (ret.op = "ShardMapping.fetch" /\ ret.args = t)
      => \A m \in added[t] : ret.outcome = OK /\ ret.value = m

\* A fetch of a table answered while the other table is mapped with other
\* values in every column.
C7_Witness ==
    /\ ret.op = "ShardMapping.fetch"
    /\ ret.outcome = OK
    /\ \E r \in shard_mapping :
         /\ r.table_name # ret.args
         /\ r.column_name # ret.value.column_name
         /\ r.type_name # ret.value.type_name
         /\ r.sharding_specification # ret.value.sharding_specification

\* C13: ShardMapping.remove returns True and leaves no row of the table of
\* the mapping it was called on; the row of every other table stays as it
\* was; when the table had no row, and so when remove is called a second time
\* in a row, the catalog stays as it was.
C13_RemoveIdempotent ==
    [][ret'.op = "ShardMapping.remove"
       => \A self \in MappingRows :
            self = ret'.args
            => /\ ret'.outcome = OK
               /\ ret'.value = TRUE
               /\ RowsOf(self.table_name)' = {}
               /\ \A t \in Tables \ {self.table_name} :
                    RowsOf(t)' = RowsOf(t)
               /\ RowsOf(self.table_name) = {}
                    => shard_mapping' = shard_mapping
               /\ runs' >= 2 => shard_mapping' = shard_mapping]_vars

\* The second remove in a row for a table, called on a mapping object that
\* names the scheme of the other table's row, which is still stored.
C13_Witness ==
    /\ ret.op = "ShardMapping.remove"
    /\ runs = 2
    /\ \E r \in shard_mapping :
         /\ r.table_name # ret.args.table_name
         /\ r.sharding_specification = ret.args.sharding_specification

\* C15: ShardMapping.list(sharding_type) returns the mappings of exactly the
\* stored rows whose type_name is sharding_type, each once, and raises
\* ShardingError when no stored row has that type, be it a type no row can
\* hold or one no table is mapped with at the time.
C15_ListByType ==
    ret.op = "ShardMapping.list"
    => LET matching == {r \in shard_mapping : r.type_name = ret.args}
       IN  IF matching = {}
           THEN ret.outcome = ShardingError /\ ret.value = None
           ELSE /\ ret.outcome = OK
                /\ Range(ret.value) = matching
                /\ Len(ret.value) = Cardinality(matching)

\* A list that returned the one mapping of its type while the other table is
\* mapped with the other type.
C15_Witness ==
    /\ ret.op = "ShardMapping.list"
    /\ ret.outcome = OK
    /\ Len(ret.value) = 1
    /\ \E r \in shard_mapping : r.type_name \in Types \ {ret.args}

----------------------------------------------------------------------------
(* Properties of the directory in use (SpecDirectory) *)

\* C14: ShardMapping.remove leaves the range partition catalog, the group
\* registry and the servers' data as they were, so that lookup of every
\* key for every other table can end in exactly the ways it could before the
\* remove.
C14_NoCascade ==
    [][ret'.op = "ShardMapping.remove"
       => /\ range_spec' = range_spec
          /\ groups' = groups
          /\ shard_db' = shard_db
          /\ \A t \in Tables :
               t # ret'.args.table_name
               => \A k \in LookupKeys :
                    \A before \in {lookup(t, k)}, after \in {lookup(t, k)'} :
                      after = before]_vars

\* The remove of the mapping of db1.t1 while db1.t2 is mapped to the same
\* scheme, a partition of which covers key 500 and resolves to a group.
C14_Witness ==
    /\ ret.op = "ShardMapping.remove"
    /\ ret.args.table_name = "db1.t1"
    /\ runs = 1
    /\ RowsOf("db1.t1") = {}
    /\ \E r \in RowsOf("db1.t2") :
         /\ r.sharding_specification = ret.args.sharding_specification
         /\ \E p \in Covering(500, r.sharding_specification) :
              GroupFound(p.group_id)
    /\ \E o \in lookup("db1.t2", 500) : o.outcome = OK

\* C16: RangeShardingSpecification.fetch(name) returns the stored
\* partitions of scheme name, each as often as it is stored and with its
\* bounds and group_id, and none of another scheme; it raises ShardingError
\* when the scheme has no partition, and so does go_fish_lookup for a table
\* mapped with type RANGE to such a scheme.
C16_FetchScheme ==
    /\ ret.op = "RangeShardingSpecification.fetch"
       => IF \E p \in RangeRows : range_spec[p] > 0 /\ p.name = ret.args
          THEN /\ ret.outcome = OK
               /\ \A o \in RangeRows :
                    ret.value[o]
                      = IF o.name = ret.args THEN range_spec[o] ELSE 0
          ELSE ret.outcome = ShardingError /\ ret.value = None
    /\ ret.op = "go_fish_lookup"
       => \A m \in RowsOf(ret.args) :
            (m.type_name = "RANGE" /\ PartitionsOf(m) = {})
            => /\ ret.outcome = ShardingError
               /\ ret.value = None

\* A failed go_fish_lookup for a table whose scheme has lost its partitions
\* while the other scheme has one.
C16_Witness ==
    /\ ret.op = "go_fish_lookup"
    /\ ret.outcome = ShardingError
    /\ ret.calls = <<"ShardMapping.fetch", "RangeShardingSpecification.fetch">>
    /\ \E m \in RowsOf(ret.args) :
         /\ PartitionsOf(m) = {}
         /\ \E p \in RangeRows :
              range_spec[p] > 0 /\ p.name # m.sharding_specification

\* C19: every lookup and go_fish_lookup answers from the catalogs and the
\* registry as they are when it is called, whatever was added, removed or
\* switched over before: lookup fails exactly when no stored partition covers
\* the key and otherwise lists the members of the group of a partition that
\* covers it now, marking the group's present master and no other member;
\* go_fish_lookup lists the groups of the partitions stored now, each with
\* its present master marked.
C19_Stateless ==
    /\ ret.op = "lookup"
       => \A m \in RowsOf(ret.args[1]) :
            IF Covering(ret.args[2], m.sharding_specification) = {}
            THEN ret.outcome = ShardingError
            ELSE /\ ret.outcome = OK
                 /\ \E p \in Covering(ret.args[2], m.sharding_specification) :
                      /\ ExactTuples(ret.value, groups[p.group_id])
                      /\ \A i \in DOMAIN ret.value :
                           ret.value[i][3]
                             <=> ret.value[i][1] = groups[p.group_id].master
    /\ ret.op = "go_fish_lookup"
       => \A m \in RowsOf(ret.args) :
            IF PartitionsOf(m) = {}
            THEN ret.outcome = ShardingError
            ELSE /\ ret.outcome = OK
                 /\ DOMAIN ret.value = {p.group_id : p \in PartitionsOf(m)}
                 /\ \A g \in DOMAIN ret.value :
                      ExactTuples(ret.value[g], groups[g])

\* A lookup of key 500 after the partition that covered it at the start was
\* removed, another one of GroupID1 added and GroupID1 switched over to S2:
\* answered with S2 as the primary.
C19_Witness ==
    /\ ret.op = "lookup"
    /\ ret.args[2] = 500
    /\ ret.outcome = OK
    /\ range_spec[RangeShardingSpecification("first", 0, 1000, "GroupID1")] = 0
    /\ range_spec[RangeShardingSpecification("first", 0, 2000, "GroupID1")] = 1
    /\ groups["GroupID1"].master = "S2"
    /\ ret.value = <<<<"S1", "host1:3306", FALSE>>,
                     <<"S2", "host2:3306", TRUE>>>>

----------------------------------------------------------------------------
(* Properties of a lookup that races with adds (SpecRace) *)

\* C20: a RangeShardingSpecification.lookup(key, name) of a key that a
\* partition stored before the lookup began covers, run while partitions that
\* overlap it are added, returns in every interleaving a partition that is
\* stored under that scheme and covers the key, the old one or a new one: it
\* does not raise ShardingError and returns no partition that was not stored
\* as a row.
C20_LookupRacesAdd ==
    (/\ ret.op = "RangeShardingSpecification.lookup"
     /\ ret.args[2] = RacePartition.name
     /\ Covers(RacePartition, ret.args[1]))
    => /\ ret.outcome = OK
       /\ ret.value \in Covering(ret.args[1], ret.args[2])

\* A lookup that returned the old partition although, between its statement
\* and its return, a partition of the other group that covers the key was
\* added.
C20_Witness ==
    /\ ret.op = "RangeShardingSpecification.lookup"
    /\ ret.outcome = OK
    /\ ret.value = RacePartition
    /\ \E c \in cur :
         /\ ~c.open
         /\ c.rows = {RacePartition}
         /\ \E p \in Covering(c.key, c.name) :
              p.group_id # RacePartition.group_id

----------------------------------------------------------------------------
(* Further properties of the key router (SpecRouter) *)

\* C23: lookup(table_name, key) for a table mapped with type RANGE, when
\* every stored partition of the scheme that covers the key names a group the
\* registry does not hold, ends with a ShardingError and returns nothing.
C23_DanglingGroup ==
    ret.op = "lookup"
    => \A m \in RowsOf(ret.args[1]) :
         LET covering == Covering(ret.args[2], m.sharding_specification)
         IN  (/\ m.type_name = "RANGE"
              /\ covering # {}
              /\ \A p \in covering : ~GroupFound(p.group_id))
             => /\ ret.outcome = ShardingError
                /\ ret.value = None

\* C25: lookup and go_fish_lookup on a table mapped with a type other than
\* RANGE end in a failure and return nothing, having made no call after
\* ShardMapping.fetch, and leave the catalogs, the registry and the data as
\* they were.
C25_NonRange ==
    [][\A m \in RowsOf(TableOf(ret')) :
         (ret'.op \in {"lookup", "go_fish_lookup"} /\ m.type_name # "RANGE")
         => /\ ret'.outcome \in {AttributeError, UnboundLocalError}
            /\ ret'.value = None
            /\ ret'.calls = <<"ShardMapping.fetch">>
            /\ UNCHANGED <<shard_mapping, range_spec, groups, shard_db>>]_vars

\* A go_fish_lookup that failed on a HASH mapping whose scheme has a
\* partition of a registered group.
C25_Witness ==
    /\ ret.op = "go_fish_lookup"
    /\ ret.outcome = UnboundLocalError
    /\ \E m \in RowsOf(ret.args) :
         /\ m.type_name = "HASH"
         /\ \E p \in PartitionsOf(m) : GroupFound(p.group_id)

\* The positions of list whose tuple has isPrimary true.
Primaries(list) ==
    {i \in DOMAIN list : list[i][3]}

\* The server ids of list, in its order.
Uuids(list) ==
    [i \in DOMAIN list |-> list[i][1]]

\* C26: the list lookup returns, and each list go_fish_lookup returns for a
\* group, has at most one tuple with isPrimary true and names every member
\* of its group; for a group with no master no tuple has isPrimary true.
C26_OnePrimary ==
    /\ (ret.op = "lookup" /\ ret.outcome = OK)
       => /\ Cardinality(Primaries(ret.value)) <= 1
          /\ \E m \in RowsOf(ret.args[1]) :
               \E p \in Covering(ret.args[2], m.sharding_specification) :
                 /\ GroupFound(p.group_id)
                 /\ Uuids(ret.value) = groups[p.group_id].servers
                 /\ groups[p.group_id].master = None
                    => Primaries(ret.value) = {}
    /\ (ret.op = "go_fish_lookup" /\ ret.outcome = OK)
       => \A g \in DOMAIN ret.value :
            /\ Cardinality(Primaries(ret.value[g])) <= 1
            /\ Uuids(ret.value[g]) = groups[g].servers
            /\ groups[g].master = None => Primaries(ret.value[g]) = {}

\* A lookup answered with the two members of a group that has no master,
\* neither of them the primary.
C26_Witness ==
    /\ ret.op = "lookup"
    /\ ret.outcome = OK
    /\ groups["GroupID1"].master = None
    /\ ret.value = <<<<"S1", "host1:3306", FALSE>>,
                     <<"S2", "host2:3306", FALSE>>>>

\* C27: with the partitions of the scheme of a RANGE table non-overlapping,
\* a list lookup(table_name, key) returns is the entry go_fish_lookup
\* (table_name) has for the group of the partition covering the key, and
\* conversely; every key of go_fish_lookup's result is the group of a stored
\* partition of the scheme.
C27_KeyedAgreesWithKeyless ==
    /\ (ret.op = "lookup" /\ ret.outcome = OK)
       => \A m \in RowsOf(ret.args[1]) :
            NonOverlapping(m.sharding_specification)
            => \A p \in Covering(ret.args[2], m.sharding_specification) :
                 \A g \in go_fish_lookup(ret.args[1]) :
                   /\ g.outcome = OK
                   /\ p.group_id \in DOMAIN g.value
                   /\ g.value[p.group_id] = ret.value
    /\ (ret.op = "go_fish_lookup" /\ ret.outcome = OK)
       => \A m \in RowsOf(ret.args) :
            /\ \A g \in DOMAIN ret.value :
                 \E p \in PartitionsOf(m) : p.group_id = g
            /\ NonOverlapping(m.sharding_specification)
               => \A k \in LookupKeys :
                    \A p \in Covering(k, m.sharding_specification) :
                      GroupFound(p.group_id)
                      => \A l \in lookup(ret.args, k) :
                           /\ l.outcome = OK
                           /\ l.value = ret.value[p.group_id]

\* A lookup of a key of the second of two non-overlapping partitions owned
\* by different registered groups, answered with the servers of its group.
C27_Witness ==
    /\ ret.op = "lookup"
    /\ ret.outcome = OK
    /\ \E m \in RowsOf(ret.args[1]) :
         /\ NonOverlapping(m.sharding_specification)
         /\ {p.group_id : p \in PartitionsOf(m)} = {"GroupID1", "GroupID2"}
         /\ \A p \in PartitionsOf(m) : GroupFound(p.group_id)
    /\ ret.value = <<<<"S3", "host3:3306", groups["GroupID2"].master = "S3">>>>

----------------------------------------------------------------------------
(* Properties of removes from a filled range catalog (SpecRemove) *)

\* C29: RangeShardingSpecification.remove of (name, lower_bound, upper_bound)
\* returns True and leaves no stored row with that name and those bounds,
\* whichever group the row names; every row that differs in name, lower bound
\* or upper bound is stored as often as before.  It returns True also when no
\* row matched.
C29_RemoveScope ==
    [][ret'.op = "RangeShardingSpecification.remove"
       => /\ ret'.outcome = OK
          /\ ret'.value = TRUE
          /\ \A r \in RangeRows :
               range_spec'[r] =
                 IF /\ r.name = ret'.args[1]
                    /\ r.lower_bound = ret'.args[2]
                    /\ r.upper_bound = ret'.args[3]
                 THEN 0 ELSE range_spec[r]]_vars

\* After remove of ("first", 0, 1000) neither of the two rows stored with
\* these bounds, for GroupID1 and for GroupID2, is left, while a row of the
\* scheme with another upper bound and a row of the other scheme with the
\* same bounds are.
C29_Witness ==
    /\ ret.op = "RangeShardingSpecification.remove"
    /\ ret.args = <<"first", 0, 1000>>
    /\ ret.value = TRUE
    /\ \A i \in DOMAIN TwinPartitions : range_spec[TwinPartitions[i]] = 0
    /\ \E r \in Stored : r.name = "first" /\ r.lower_bound = 0
                           /\ r.upper_bound = 2000
    /\ \E r \in Stored : r.name = "second" /\ r.lower_bound = 0
                           /\ r.upper_bound = 1000

----------------------------------------------------------------------------
(* Further properties of the shard pruner (SpecPruner) *)

----------------------------------------------------------------------------
(* Properties of the module as a whole (SpecCore) *)

\* The operations that read.
ReadOperations ==
    {"ShardMapping.fetch", "ShardMapping.list",
     "RangeShardingSpecification.fetch", "RangeShardingSpecification.lookup",
     "lookup", "go_fish_lookup"}

\* The operations that write a catalog.
WriteOperations ==
    {"ShardMapping.add", "ShardMapping.remove",
     "RangeShardingSpecification.add", "RangeShardingSpecification.remove"}

\* C21: ShardMapping.fetch and list, RangeShardingSpecification.fetch and
\* lookup, lookup and go_fish_lookup leave shard_mapping,
\* range_sharding_specification and the registry as they were, however they
\* end; no operation of the module, delete_from_shard_db included, changes
\* the registry; a catalog changes only in a step of add or remove.
C21_ReadOnly ==
    [][/\ ret'.op \in ReadOperations
          => UNCHANGED <<shard_mapping, range_spec, groups>>
       /\ groups' = groups
       /\ (shard_mapping' # shard_mapping \/ range_spec' # range_spec)
          => ret'.op \in WriteOperations
       /\ ret'.op = "delete_from_shard_db"
          => UNCHANGED <<shard_mapping, range_spec>>]_vars

\* A go_fish_lookup answered for a table whose scheme has a partition of the
\* registered group and one of a group that is not registered: both
\* partitions are stored after it.
C21_Witness ==
    /\ ret.op = "go_fish_lookup"
    /\ ret.outcome = OK
    /\ DOMAIN ret.value = {"GroupID1"}
    /\ groups = CoreRegistry
    /\ \E m \in RowsOf(ret.args) :
         {p.group_id : p \in PartitionsOf(m)} = {"GroupID1", "GroupID2"}

\* C24: a mapping is never updated in place: while a table is mapped its row
\* is the one its add stored, a step that leaves the table mapped leaves its
\* row as it was, and ShardMapping.fetch of the table returns that row,
\* whatever was done to other tables and to the range catalog and whatever
\* was looked up or pruned since the add.
C24_MappingImmutable ==
    /\ [](\A t \in Tables :
            /\ added[t] # {} => RowsOf(t) = added[t]
            /\ (ret.op = "ShardMapping.fetch" /\ ret.args = t
                  /\ added[t] # {})
               => (ret.outcome = OK /\ {ret.value} = added[t]))
    /\ [][\A t \in Tables :
            (RowsOf(t) # {} /\ RowsOf(t)' # {}) => RowsOf(t)' = RowsOf(t)
         ]_vars

\* A fetch answered with the HASH mapping the table was added with, after a
\* partition was stored for its scheme, while the other table is mapped with
\* type RANGE.
C24_Witness ==
    /\ ret.op = "ShardMapping.fetch"
    /\ ret.outcome = OK
    /\ ret.value.type_name = "HASH"
    /\ {ret.value} = added[ret.args]
    /\ \E p \in Stored : p.name = ret.value.sharding_specification
    /\ \E r \in shard_mapping :
         r.table_name # ret.args /\ r.type_name = "RANGE"

----------------------------------------------------------------------------
(* Properties of a lookup among other callers' changes (SpecSnapshot) *)

\* The call of lookup in flight has returned a list.
Answered(f) ==
    /\ f.pc = "returned"
    /\ ret.op = "lookup"
    /\ ret.args = <<f.table_name, f.key>>
    /\ ret.outcome = OK

\* C30: every list that lookup(table_name, key) returns is a list that
\* lookup gives in one of the states passed between the beginning of the call
\* and its return, whatever other callers added to or removed from the two
\* catalogs in between.
C30_Snapshot ==
    \A f \in frame : Answered(f) => ret.value \in f.seen

\* C30, amended: every list that lookup(table_name, key) returns is a list
\* that lookup gives in one of the states passed between the beginning of
\* the call and its return, whatever other callers added or removed in
\* between, provided the row of the table in shard_mapping stayed as it was
\* from the call's read of the mapping to its read of the partition.
C30_SnapshotWhileMapped ==
    \A f \in frame : (Answered(f) /\ f.stable) => ret.value \in f.seen

\* A call answered with a list that lookup did not give in the state the
\* call began in: the partition was replaced by another caller while the
\* call was in flight, the mapping of the table staying as it was.
C30_Witness ==
    \E f \in frame :
      /\ Answered(f)
      /\ f.stable
      /\ f.started # {}
      /\ ret.value \notin f.started
      /\ ret.value \in f.seen

====
